---- MODULE Spec2Model ----
(***************************************************************************)
(* A model of scripts/lib9p.py: the acme control-file helpers (a_read,     *)
(* a_write and the functions built on them) and the EventHandler, which    *)
(* lazily starts a `9p read acme/<id>/event | acmeevent` process and       *)
(* hands out its output lines one at a time through a generator.           *)
(***************************************************************************)
EXTENDS Integers, Sequences, FiniteSets, TLC

\* ------------------------------------------------------------------ bounds
MaxProcs == 2   \* Popen calls made over one run
MaxLines == 2   \* lines one background process emits
MaxPulls == 3   \* events one background process's generator hands out

\* --------------------------------------------------------------- constants
\* Python's None, for the `id` arguments, os.environ without 'winid' and
\* EventHandler._gen_events.
None == 0
WinIds == {1, 2}
\* Characters str.strip() removes.
Whitespace == {" ", "\n", "\t"}
\* What the background process can write as one line, terminator included.
\* "\\xff" stands for a byte the text-mode pipe cannot decode.
RawLines == { <<"A", "\n">>, <<" ", "B", "\n">>, <<"\\xff", "\n">> }

\* What `9p read` can print for a control file.
Contents ==
  { <<"f", " ", "D", "e", "l", " ", "P", "u", "t", " ", "|", "u", " ", "r", "\n">>,
    <<"f", " ", "D", "e", "l", " ", "P", "u", "t", "\n">>,
    <<>>,
    <<"\\xff">> }
\* Tag lines `9p read acme/<id>/tag` can print: a file name, the built-in
\* tags, the custom tags.
TagNames ==
  { <<"m", "a", "i", "n", ".", "g", "o">>,
    <<"a", "|", "b">>,
    <<"x", " ", "D", "e", "l", "t", "a">> }
TagBuiltins ==
  { <<" ", "D", "e", "l", " ", "S", "n", "a", "r", "f", " ">>,
    <<" ", "D", "e", "l">>,
    <<>> }
TagCustoms ==
  { <<>>,
    <<"|">>,
    <<"|", "u", "n", "d", "o", " ", "r", "e", "d", "o">>,
    <<"|", " ", "a", " ", "|", "b", " ", "\n">> }
TagLines == {n \o b \o c : n \in TagNames, b \in TagBuiltins, c \in TagCustoms}
\* Control files and texts the script passes to a_read and a_write directly.
Fnames == {"ctl", "tag"}
Texts == {"dirty"}

VARIABLES
  environ,   \* os.environ.get('winid'), None when unset
  handler,   \* the EventHandler: [exists, id, gen_events]
  procs,     \* every process Popen returned, in spawn order, each with the
             \* generator that closes over it
  stdout,    \* the pipe of the newest process (the only one a generator
             \* can still read): lines written, lines read, events made
  pc,        \* where the (single) caller is: "idle" or blocked in "readline"
  npopen,    \* Popen calls made so far
  last,      \* the most recent API call: arguments and what it did
  other      \* the most recent call of a second caller (another thread)

vars == <<environ, handler, procs, stdout, pc, npopen, last, other>>

\* ---------------------------------------------------------------- helpers
RECURSIVE lstrip(_)
lstrip(s) == IF s # <<>> /\ Head(s) \in Whitespace THEN lstrip(Tail(s)) ELSE s

RECURSIVE rstrip(_)
rstrip(s) ==
  IF s # <<>> /\ s[Len(s)] \in Whitespace THEN rstrip(SubSeq(s, 1, Len(s) - 1)) ELSE s

\* str.strip()
strip(s) == rstrip(lstrip(s))

\* Event(estr): the wrapper holds the string it was given.
Event(estr) == estr

\* text=True decoding of one line: fails on a byte that is not valid text.
decodable(line) == \A i \in 1..Len(line) : line[i] # "\\xff"

\* proc.stdout.readline() can return: a line is buffered, or the writer is gone.
readline_ready(out, status) == out.nread < Len(out.emitted) \/ status # "running"

\* A readline() that returns the newest line written instead of the oldest.
readline_newest(out) ==
  IF out.nread < Len(out.emitted) THEN out.emitted[Len(out.emitted)] ELSE <<>>

\* proc.stdout.readline(): the oldest unread line, or '' at end of file.
readline(out) ==
  IF out.nread < Len(out.emitted) THEN out.emitted[out.nread + 1] ELSE <<>>

\* What readline() leaves read: one more line, unless there was none.
consume(out) ==
  [out EXCEPT !.nread = IF @ < Len(out.emitted) THEN @ + 1 ELSE @]

\* s[i:i+len(sep)] == sep
startsat(s, sep, i) ==
  i + Len(sep) - 1 <= Len(s) /\ SubSeq(s, i, i + Len(sep) - 1) = sep

\* str.find(sep), counted from 1; 0 when sep does not occur
find(s, sep) ==
  IF \E i \in 1..Len(s) : startsat(s, sep, i)
  THEN CHOOSE i \in 1..Len(s) :
         startsat(s, sep, i) /\ \A j \in 1..(i - 1) : ~startsat(s, sep, j)
  ELSE 0

\* str.rpartition(sep) with the empty parts on partition's side: splits at
\* the last occurrence instead of the first.
partition_last(s, sep) ==
  IF find(s, sep) = 0 THEN <<s, <<>>, <<>>>>
  ELSE LET i == CHOOSE k \in 1..Len(s) :
                  startsat(s, sep, k) /\ \A j \in (k + 1)..Len(s) : ~startsat(s, sep, j)
       IN <<SubSeq(s, 1, i - 1), sep, SubSeq(s, i + Len(sep), Len(s))>>

\* str.partition(sep)
partition(s, sep) ==
  LET i == find(s, sep) IN
  IF i = 0 THEN <<s, <<>>, <<>>>>
  ELSE <<SubSeq(s, 1, i - 1), sep, SubSeq(s, i + Len(sep), Len(s))>>

\* str.split(): the runs of non-whitespace characters
RECURSIVE split(_)
split(s) ==
  LET t == lstrip(s) IN
  IF t = <<>> THEN <<>>
  ELSE LET n == CHOOSE k \in 1..Len(t) :
                  /\ \A j \in 1..k : t[j] \notin Whitespace
                  /\ (k = Len(t) \/ t[k + 1] \in Whitespace)
       IN <<SubSeq(t, 1, n)>> \o split(SubSeq(t, n + 1, Len(t)))

\* The record of one API call. env: os.environ's 'winid' as the call read
\* it, which it does only when it is given no id.
Call(op, id, env) ==
  [op |-> op, id |-> id, env |-> IF id = None THEN env ELSE None, outcome |-> "returned", exc |-> "",
   value |-> <<>>, runs |-> <<>>, popen |-> 0, kill |-> 0, proc |-> 0,
   eof |-> FALSE, out |-> <<>>]

Raise(c, exc) == [c EXCEPT !.outcome = "raised", !.exc = exc]

\* Popen(f'9p read acme/{self._id}/event | acmeevent', ...): the new process
\* and, closed over it, the generator _gen() after get_event's first next():
\* suspended at `continue_listening = yield`.
Popen(id) == [id |-> id, status |-> "running", gen |-> "yield_instruction"]

\* stdout=PIPE of a new process: nothing written, nothing read.
PIPE == [emitted |-> <<>>, nread |-> 0, delivered |-> <<>>]

\* A get_event without its closing next(): the generator stays where the
\* event was yielded.
gen_next_missing(g) == g

\* The generator after `yield Event(line)` is resumed by next(): it loops
\* back to `continue_listening = yield`.
gen_next(g) == IF g = "yield_event" THEN "yield_instruction" ELSE "done"

\* proc.kill(): a process that already ended is left as it is.
kill(p) == [p EXCEPT !.status = IF @ = "running" THEN "killed" ELSE @]

\* A get_event that starts a process on every call.
needs_init_always(h) == TRUE

\* A get_event that also starts over when its generator has finished.
needs_init_or_finished(h) ==
  h.gen_events = None \/ procs[h.gen_events].gen = "done"

\* get_event's test `self._gen_events is None`
needs_init(h) == h.gen_events = None

\* The window whose event file the command names, taken from the
\* environment at spawn time instead of from the handler.
event_id_ambient(h) == environ

\* The window whose event file the Popen command names: self._id
event_id(h) == h.id

\* The handler after Popen raised in _init_event_gen, with the generator of
\* the previous process put back.
Popen_raised_stale(h) == [h EXCEPT !.gen_events = Len(procs)]

\* The handler after Popen raised in _init_event_gen: the exception leaves
\* before `self._gen_events = _gen()` and `self._stop = ...` are reached.
Popen_raised(h) == h

\* A stop() without its `is None` test: self._stop does not exist yet, or
\* sends to None.
stop_unguarded(c) == Raise(c, "AttributeError")

\* stop() when _gen_events is None: `return`. c: the call's record.
stop_when_idle(c) == c

\* A stop() that forgets to drop the generator.
stop_keep(h) == h

\* stop()'s last statement.
stop_reset(h) == [h EXCEPT !.gen_events = None]

\* --------------------------------------------------------------- the state
Init ==
  /\ environ \in WinIds \cup {None}
  /\ handler = [exists |-> FALSE, id |-> None, gen_events |-> None]
  /\ procs = <<>>
  /\ stdout = PIPE
  /\ pc = "idle"
  /\ npopen = 0
  /\ last = [Call("none", None, None) EXCEPT !.outcome = "none"]
  /\ other = [Call("none", None, None) EXCEPT !.outcome = "none"]

\* The script changes (or unsets) the ambient window id.
setenv(v) ==
  /\ pc = "idle"
  /\ environ' = v
  /\ UNCHANGED <<handler, procs, stdout, pc, npopen, last, other>>

\* EventHandler.__init__(id)
EventHandler_init(id) ==
  /\ pc = "idle"
  /\ ~handler.exists
  /\ IF id = None /\ environ = None
     THEN /\ last' = Raise(Call("EventHandler", id, environ), "KeyError")
          /\ UNCHANGED handler
     ELSE /\ handler' = [exists |-> TRUE,
                         id |-> IF id = None THEN environ ELSE id,
                         gen_events |-> None]
          /\ last' = Call("EventHandler", id, environ)
  /\ UNCHANGED <<environ, procs, stdout, pc, npopen, other>>

\* ------------------------------------------------- control-file helpers
\* One external command: `9p read acme/{id}/{fname}` or
\* `echo {text} | 9p write acme/{id}/{fname}`.
run(cmd, id, fname, text) == [cmd |-> cmd, id |-> id, fname |-> fname, text |-> text]

\* The body of a_read, as called by op: the call record it leaves.
\* out: what the command printed.
do_read(op, fname, id, out) ==
  LET c == Call(op, id, environ) IN
  IF id = None /\ environ = None
  THEN Raise(c, "KeyError")
  ELSE LET r == [c EXCEPT !.runs = <<run("read", IF id = None THEN environ ELSE id,
                                         fname, <<>>)>>]
       IN IF decodable(out) THEN [r EXCEPT !.value = out, !.out = out]
          ELSE Raise(r, "UnicodeDecodeError")

\* An a_write that takes a missing 'winid' as None and goes on.
do_write_lenient(op, fname, text, id) ==
  [Call(op, id, environ) EXCEPT
     !.runs = <<run("write", IF id = None THEN environ ELSE id, fname, text)>>]

\* The body of a_write, as called by op: the call record it leaves.
do_write(op, fname, text, id) ==
  LET c == Call(op, id, environ) IN
  IF id = None /\ environ = None
  THEN Raise(c, "KeyError")
  ELSE [c EXCEPT !.runs = <<run("write", IF id = None THEN environ ELSE id,
                                fname, text)>>]

\* The helpers keep no state: a call leaves only its record.
helper(c) ==
  /\ pc = "idle"
  /\ last' = c
  /\ UNCHANGED <<environ, handler, procs, stdout, pc, npopen, other>>

a_read(fname, id, out) == helper(do_read("a_read", fname, id, out))

a_write(fname, text, id) == helper(do_write("a_write", fname, text, id))

\* A mark_clean that writes mark_dirty's literal.
mark_clean_dirty(id) == helper(do_write("mark_clean", "ctl", "dirty", id))

mark_clean(id) == helper(do_write("mark_clean", "ctl", "clean", id))

mark_dirty(id) == helper(do_write("mark_dirty", "ctl", "dirty", id))

clear_tags(id) == helper(do_write("clear_tags", "ctl", "cleartag", id))

reload_window(id) == helper(do_write("reload_window", "ctl", "get", id))

save(id) == helper(do_write("save", "ctl", "put", id))

fname_and_tags(id, out) ==
  LET c == do_read("fname_and_tags", "tag", id, out) IN
  helper(IF c.outcome = "raised" THEN c
         ELSE LET p1 == partition(c.value, <<" ", "D", "e", "l">>)
                  p2 == partition(p1[3], <<"|">>)
              IN [c EXCEPT !.value = <<p1[1], split(strip(p2[3]))>>])

get_window_name(id, out) ==
  LET c == do_read("get_window_name", "tag", id, out) IN
  helper(IF c.outcome = "raised" THEN c
         ELSE IF split(c.value) = <<>> THEN Raise(c, "IndexError")
         ELSE [c EXCEPT !.value = split(c.value)[1]])

\* ------------------------------------------------------- the EventHandler
\* get_event(), up to the point where the generator blocks in readline().
\* spawn_ok: whether Popen can start the process.
get_event_call(spawn_ok) ==
  /\ pc = "idle"
  /\ handler.exists
  /\ UNCHANGED <<environ, other>>
  /\ LET fresh == needs_init(handler)
         c == [Call("get_event", None, None) EXCEPT !.popen = IF fresh THEN 1 ELSE 0]
     IN
     IF fresh /\ ~spawn_ok
     THEN \* Popen raises inside _init_event_gen: nothing was assigned
          /\ npopen < MaxProcs
          /\ npopen' = npopen + 1
          /\ last' = Raise(c, "OSError")
          /\ handler' = Popen_raised(handler)
          /\ UNCHANGED <<procs, stdout, pc>>
     ELSE LET procs1 == IF fresh THEN Append(procs, Popen(event_id(handler))) ELSE procs
              g == IF fresh THEN Len(procs1) ELSE handler.gen_events
          IN
          /\ fresh => npopen < MaxProcs
          /\ npopen' = IF fresh THEN npopen + 1 ELSE npopen
          /\ handler' = [handler EXCEPT !.gen_events = g]
          /\ stdout' = IF fresh THEN PIPE ELSE stdout
          /\ IF procs1[g].gen = "yield_instruction"
             THEN \* send(True): continue_listening is True, on to readline()
                  /\ Len(stdout'.delivered) < MaxPulls
                  /\ procs' = [procs1 EXCEPT ![g].gen = "readline"]
                  /\ pc' = "readline"
                  /\ last' = [c EXCEPT !.outcome = "pending", !.proc = g]
             ELSE \* send(True) to a finished generator
                  /\ procs' = procs1
                  /\ pc' = "idle"
                  /\ last' = Raise([c EXCEPT !.proc = g], "StopIteration")

\* get_event(), from the return of readline() to the end.
get_event_return ==
  /\ pc = "readline"
  /\ LET g == handler.gen_events
         line == readline(stdout)
     IN
     /\ readline_ready(stdout, procs[g].status)
     /\ IF ~decodable(line)
        THEN \* readline() raises; the exception ends the generator and
             \* leaves get_event before anything is assigned
             /\ procs' = [procs EXCEPT ![g].gen = "done"]
             /\ stdout' = consume(stdout)
             /\ last' = Raise(last, "UnicodeDecodeError")
        ELSE LET evt == Event(strip(line)) IN
             \* `yield Event(line)` hands evt to send(True); next() resumes
             /\ procs' = [procs EXCEPT ![g].gen = gen_next("yield_event")]
             /\ stdout' = [consume(stdout) EXCEPT !.delivered = Append(@, evt)]
             /\ last' = [last EXCEPT !.outcome = "returned", !.value = evt,
                                     !.eof = stdout.nread = Len(stdout.emitted)]
     /\ pc' = "idle"
     /\ UNCHANGED <<environ, handler, npopen, other>>

\* The blocked readline() is interrupted (Ctrl-C): KeyboardInterrupt is
\* raised inside the generator, ends it and leaves get_event.
interrupt ==
  /\ pc = "readline"
  /\ procs' = [procs EXCEPT ![handler.gen_events].gen = "done"]
  /\ last' = Raise(last, "KeyboardInterrupt")
  /\ pc' = "idle"
  /\ UNCHANGED <<environ, handler, stdout, npopen, other>>

\* stop(). kill_ok: whether proc.kill() can signal the process; when it
\* cannot, kill() raises OSError.
stop(kill_ok) ==
  /\ pc = "idle"
  /\ handler.exists
  /\ LET g == handler.gen_events
         c == [Call("stop", None, None) EXCEPT !.proc = g]
     IN
     IF g = None
     THEN /\ last' = stop_when_idle(c)
          /\ UNCHANGED <<handler, procs>>
     ELSE IF procs[g].gen = "yield_instruction"
     THEN \* send(False): `proc.kill(); return`
          IF procs[g].status = "running" /\ ~kill_ok
          THEN \* kill() raises: not a StopIteration, so stop() lets it out
               /\ procs' = [procs EXCEPT ![g].gen = "done"]
               /\ last' = Raise([c EXCEPT !.kill = 1], "OSError")
               /\ UNCHANGED handler
          ELSE /\ procs' = [procs EXCEPT ![g] = [kill(@) EXCEPT !.gen = "done"]]
               /\ last' = [c EXCEPT !.kill = 1]
               /\ handler' = stop_reset(handler)
     ELSE \* send(False) to a finished generator: StopIteration, swallowed
          /\ procs' = procs
          /\ last' = c
          /\ handler' = stop_reset(handler)
  /\ UNCHANGED <<environ, stdout, pc, npopen, other>>

\* stop() called by a second thread while the first is inside get_event,
\* blocked in readline(): _gen_events is not None, and send(False) finds
\* the generator running, which raises ValueError ("generator already
\* executing") before the generator sees anything. stop() does not catch
\* it and does not reach its last statement.
stop_concurrent ==
  /\ pc = "readline"
  /\ procs[handler.gen_events].gen = "readline"
  /\ other' = Raise([Call("stop", None, None) EXCEPT !.proc = handler.gen_events],
                    "ValueError")
  /\ UNCHANGED <<environ, handler, procs, stdout, pc, npopen, last>>

\* The newest background process writes one more line.
emit(line) ==
  /\ procs # <<>>
  /\ procs[Len(procs)].status = "running"
  /\ Len(stdout.emitted) < MaxLines
  /\ stdout' = [stdout EXCEPT !.emitted = Append(@, line)]
  /\ UNCHANGED <<environ, handler, procs, pc, npopen, last, other>>

\* A background process ends on its own.
exit(i) ==
  /\ procs[i].status = "running"
  /\ procs' = [procs EXCEPT ![i].status = "exited"]
  /\ UNCHANGED <<environ, handler, stdout, pc, npopen, last, other>>

\* One step of the control-file helpers.
Helpers ==
  \/ \E f \in Fnames, id \in WinIds \cup {None}, out \in Contents : a_read(f, id, out)
  \/ \E f \in Fnames, t \in Texts, id \in WinIds \cup {None} : a_write(f, t, id)
  \/ \E id \in WinIds \cup {None} : mark_clean(id)
  \/ \E id \in WinIds \cup {None} : mark_dirty(id)
  \/ \E id \in WinIds \cup {None} : clear_tags(id)
  \/ \E id \in WinIds \cup {None} : reload_window(id)
  \/ \E id \in WinIds \cup {None} : save(id)
  \/ \E id \in WinIds \cup {None}, out \in Contents : fname_and_tags(id, out)
  \/ \E id \in WinIds \cup {None}, out \in Contents : get_window_name(id, out)

\* One step of a script that uses an EventHandler, or of its processes.
Lifecycle ==
  \/ \E v \in WinIds \cup {None} : setenv(v)
  \/ \E id \in WinIds \cup {None} : EventHandler_init(id)
  \/ \E ok \in BOOLEAN : get_event_call(ok)
  \/ get_event_return
  \/ interrupt
  \/ stop(TRUE)
  \/ \E i \in 1..Len(procs) : exit(i)

\* The EventHandler with everything its processes can do.
Next ==
  \/ Lifecycle
  \/ \E line \in RawLines : emit(line)

Spec == Init /\ [][Next]_vars

\* What the process that get_event reads from does by itself: it writes a
\* line or it ends.
process_acts ==
  \/ \E line \in RawLines : emit(line)
  \/ procs # <<>> /\ exit(Len(procs))

\* The EventHandler where the process read from eventually writes a line or
\* ends, and where readline() returns once it can: get_event does nothing
\* between sending True and readline() but wait for the pipe.
SpecFair ==
  /\ Spec
  /\ WF_vars(process_acts)
  /\ WF_vars(get_event_return)

\* The whole API: the helpers and the EventHandler in one script. The
\* helpers neither read nor write the handler or its processes, so this
\* specification leaves what the processes and the system can do to Spec:
\* here Popen succeeds, nothing interrupts a read, and the processes write
\* nothing and can only end.
NextApi ==
  \/ \E v \in WinIds \cup {None} : setenv(v)
  \/ \E id \in WinIds \cup {None} : EventHandler_init(id)
  \/ get_event_call(TRUE)
  \/ get_event_return
  \/ stop(TRUE)
  \/ \E i \in 1..Len(procs) : exit(i)
  \/ Helpers

SpecApi == Init /\ [][NextApi]_vars

\* The tag-line helpers alone, over every tag line of TagLines.
NextTags ==
  \/ \E v \in WinIds \cup {None} : setenv(v)
  \/ \E id \in WinIds \cup {None}, out \in TagLines : fname_and_tags(id, out)
  \/ \E id \in WinIds \cup {None}, out \in TagLines : get_window_name(id, out)

SpecTags == Init /\ [][NextTags]_vars

\* The EventHandler used from two threads: one calls get_event and stop in
\* turn, the other may call stop while the first is blocked in its read.
NextConcurrent ==
  \/ Next
  \/ stop_concurrent

SpecConcurrent == Init /\ [][NextConcurrent]_vars

\* The EventHandler where terminating a process can itself report an error.
NextKillFault ==
  \/ Next
  \/ stop(FALSE)

SpecKillFault == Init /\ [][NextKillFault]_vars

\* ------------------------------------------------------------------ claims
\* Processes the manager spawned that are neither killed nor ended.
Live == {i \in 1..Len(procs) : procs[i].status = "running"}

\* The calls that take a window id argument.
IdOps ==
  {"EventHandler", "a_read", "a_write", "mark_clean", "mark_dirty", "clear_tags",
   "reload_window", "save", "fname_and_tags", "get_window_name"}

\* C1: in every reachable state at most one background process spawned by
\* the manager is alive (spawned and not yet killed or ended).
C1_AtMostOneLive == Cardinality(Live) <= 1

\* C2: a stop() called after one or more get_event() calls have returned
\* since construction or the last stop issues proc.kill, leaves the manager
\* Idle and raises nothing.
C2_StopTerminates ==
  (last.op = "stop" /\ last.proc # None /\ stdout.delivered # <<>>) =>
    /\ last.kill = 1
    /\ last.outcome = "returned"
    /\ handler.gen_events = None

\* C3: lazy start. Construction starts no process; Popen is called in a
\* step exactly when that step is a get_event() on a manager whose
\* _gen_events is None, and then once; a process appears only with such a
\* call (one whose Popen succeeds adds exactly one), so a get_event() on an
\* Active manager starts none.
C3_LazyStart ==
  [][ /\ (npopen' # npopen) <=>
           ((\E ok \in BOOLEAN : get_event_call(ok)) /\ handler.gen_events = None)
      /\ npopen' \in {npopen, npopen + 1}
      /\ Len(procs') - Len(procs) \in {0, npopen' - npopen}
      /\ (get_event_call(TRUE) /\ handler.gen_events = None) =>
           Len(procs') = Len(procs) + 1
      /\ (\E id \in WinIds \cup {None} : EventHandler_init(id)) =>
           (npopen' = 0 /\ procs' = <<>>) ]_vars

C3_Witness ==
  /\ handler.exists
  /\ npopen = 1
  /\ Len(stdout.delivered) >= 2

\* C4: stop() on an Idle manager, whether before any get_event() or right
\* after another stop(), raises nothing, starts no process, kills no
\* process and leaves the manager Idle, with the state a single stop() left.
C4_StopIdempotent ==
  [][ (stop(TRUE) /\ (handler.gen_events = None \/ last.op = "stop")) =>
        /\ last'.outcome = "returned"
        /\ last'.kill = 0
        /\ last'.popen = 0
        /\ handler'.gen_events = None
        /\ UNCHANGED <<environ, handler, procs, stdout, pc, npopen>> ]_vars

C4_Witness ==
  /\ last.op = "stop"
  /\ last.proc = None
  /\ last.outcome = "returned"
  /\ Len(procs) >= 1

\* C5: the get_event() that follows a stop() that returned calls Popen
\* again; when the spawn succeeds the generator it reads through is bound
\* to the new process, whose pipe has not been read, and a read never
\* completes on a process that was killed.
C5_RestartAfterStop ==
  [][ /\ (last.op = "stop" /\ last.outcome = "returned"
            /\ \E ok \in BOOLEAN : get_event_call(ok)) =>
           /\ last'.popen = 1
           /\ last'.outcome # "raised" =>
                /\ Len(procs') = Len(procs) + 1
                /\ handler'.gen_events = Len(procs')
                /\ last'.proc = Len(procs')
                /\ procs'[Len(procs')].status = "running"
                /\ stdout'.nread = 0 /\ stdout'.emitted = <<>>
      /\ get_event_return =>
           /\ last.proc = Len(procs)
           /\ procs[last.proc].status # "killed" ]_vars

C5_Witness ==
  /\ Len(procs) >= 2
  /\ procs[1].status = "killed"
  /\ last.op = "get_event"
  /\ last.outcome = "returned"
  /\ last.proc = 2

\* C6: FIFO delivery. Over one background process the k-th event handed
\* out is Event(line.strip()) of the k-th line the process wrote, and every
\* get_event() that is given a line takes exactly one: none is skipped,
\* repeated or reordered.
C6_Fifo ==
  LET d == stdout.delivered
      e == stdout.emitted
  IN
  /\ \A k \in 1..Len(d) : k <= Len(e) => d[k] = Event(strip(e[k]))
  /\ Len(d) <= Len(e) =>
       /\ stdout.nread \in {Len(d), Len(d) + 1}
       /\ stdout.nread = Len(d) + 1 => ~decodable(e[stdout.nread])
  /\ Len(d) > Len(e) => stdout.nread = Len(e)

C6_Witness ==
  /\ Len(stdout.delivered) >= 2
  /\ Len(stdout.emitted) >= 2
  /\ stdout.delivered[1] # stdout.delivered[2]

\* C7: when the background process's output has ended, the next
\* get_event() fails with StreamClosed instead of returning an Event.
C7_EndOfStreamRaises ==
  (last.op = "get_event" /\ last.eof) =>
    (last.outcome = "raised" /\ last.exc = "StreamClosed")

\* C8: stop() returns normally and leaves the manager Idle from every
\* reachable state, also when terminating the process reports an error.
C8_StopNeverFails ==
  last.op = "stop" => (last.outcome = "returned" /\ handler.gen_events = None)

\* C9: a call given no id while 'winid' is unset raises KeyError before it
\* runs any command or starts any process; a failed construction creates no
\* manager, and without a manager no process is ever started.
C9_MissingContext ==
  /\ (last.op \in IdOps /\ last.id = None /\ last.env = None) =>
       /\ last.outcome = "raised"
       /\ last.exc = "KeyError"
       /\ last.runs = <<>>
       /\ last.popen = 0
  /\ (last.op = "EventHandler" /\ last.outcome = "raised") => ~handler.exists
  /\ ~handler.exists => (procs = <<>> /\ npopen = 0)

C9_Witness ==
  /\ last.op = "mark_dirty"
  /\ last.id = None
  /\ last.exc = "KeyError"

\* C10: the manager's window id is the explicit argument, or the ambient
\* value at construction; no later call changes it, and every process the
\* manager starts reads the event file of that id, whatever 'winid' is then.
C10_IdFixed ==
  [][ /\ handler.exists => (handler'.exists /\ handler'.id = handler.id)
      /\ (last'.op = "EventHandler" /\ last'.outcome = "returned") =>
           handler'.id = IF last'.id # None THEN last'.id ELSE last'.env
      /\ \A i \in 1..Len(procs') : procs'[i].id = handler'.id ]_vars

C10_Witness ==
  /\ Len(procs) >= 2
  /\ environ # handler.id
  /\ last.op = "get_event"
  /\ last.popen = 1

\* The literal each derived control operation is documented to write.
CtlLiteral(op) ==
  CASE op = "mark_dirty" -> "dirty"
    [] op = "mark_clean" -> "clean"
    [] op = "clear_tags" -> "cleartag"
    [] op = "reload_window" -> "get"
    [] op = "save" -> "put"

CtlOps == {"mark_dirty", "mark_clean", "clear_tags", "reload_window", "save"}

\* C11: each derived control operation that is given a window runs exactly
\* one command, the write of its fixed literal to that window's ctl file,
\* and no read; no helper call changes the EventHandler, its processes or
\* their pipe.
C11_CtlWrites ==
  [][ Helpers =>
        /\ UNCHANGED <<environ, handler, procs, stdout, pc, npopen, other>>
        /\ (last'.op \in CtlOps /\ last'.outcome = "returned") =>
             last'.runs =
               <<[cmd |-> "write",
                  id |-> IF last'.id # None THEN last'.id ELSE last'.env,
                  fname |-> "ctl",
                  text |-> CtlLiteral(last'.op)]>> ]_vars

C11_Witness ==
  /\ last.op = "mark_clean"
  /\ last.outcome = "returned"
  /\ Len(last.runs) = 1
  /\ handler.gen_events # None

\* ' Del' and '|', the two delimiters of a tag line.
DelMark == <<" ", "D", "e", "l">>
BarMark == <<"|">>

\* The text of s before its first sep (all of s when sep does not occur)
\* and the text after it (nothing when sep does not occur).
Occurs(s, sep, n) == n + Len(sep) <= Len(s) /\ SubSeq(s, n + 1, n + Len(sep)) = sep
FirstAt(s, sep) ==
  IF \E n \in 0..Len(s) : Occurs(s, sep, n)
  THEN CHOOSE n \in 0..Len(s) :
         Occurs(s, sep, n) /\ \A m \in 0..(n - 1) : ~Occurs(s, sep, m)
  ELSE Len(s)
TextBefore(s, sep) == SubSeq(s, 1, FirstAt(s, sep))
TextAfter(s, sep) == SubSeq(s, FirstAt(s, sep) + Len(sep) + 1, Len(s))

RECURSIVE Flatten(_)
Flatten(ss) == IF ss = <<>> THEN <<>> ELSE Head(ss) \o Flatten(Tail(ss))

NoBlanks(s) == SelectSeq(s, LAMBDA ch : ch \notin Whitespace)

\* The words of s: how many start in s.
WordStarts(s) ==
  {i \in 1..Len(s) : s[i] \notin Whitespace /\ (i = 1 \/ s[i - 1] \in Whitespace)}

\* ws is the whitespace-split list of s: its words, whole and in order.
IsWordList(ws, s) ==
  /\ \A k \in 1..Len(ws) : ws[k] # <<>> /\ NoBlanks(ws[k]) = ws[k]
  /\ Flatten(ws) = NoBlanks(s)
  /\ Len(ws) = Cardinality(WordStarts(s))

MainGoLine ==
  <<"m", "a", "i", "n", ".", "g", "o">> \o
  <<" ", "D", "e", "l", " ", "S", "n", "a", "r", "f", " ">> \o
  <<"|", "u", "n", "d", "o", " ", "r", "e", "d", "o">>

\* C12: fname_and_tags runs exactly one read, of the window's tag file, and
\* returns the text before the first ' Del' with the whitespace-split list of
\* the text after the first '|' that follows it: ('main.go', ['undo',
\* 'redo']) on 'main.go Del Snarf |undo redo', and an empty list with the
\* text before ' Del' on every tag line without '|'.
C12_FnameAndTags ==
  (last.op = "fname_and_tags" /\ last.outcome = "returned") =>
    /\ last.runs =
         <<[cmd |-> "read",
            id |-> IF last.id # None THEN last.id ELSE last.env,
            fname |-> "tag", text |-> <<>>]>>
    /\ last.value[1] = TextBefore(last.out, DelMark)
    /\ IsWordList(last.value[2], TextAfter(TextAfter(last.out, DelMark), BarMark))
    /\ last.out = MainGoLine =>
         last.value = << <<"m", "a", "i", "n", ".", "g", "o">>,
                         << <<"u", "n", "d", "o">>, <<"r", "e", "d", "o">> >> >>
    /\ (\A i \in 1..Len(last.out) : last.out[i] # "|") => last.value[2] = <<>>

C12_Witness ==
  /\ last.op = "fname_and_tags"
  /\ last.outcome = "returned"
  /\ last.out = MainGoLine
  /\ Len(last.value[2]) = 2

\* C13: a stop(), the caller's own or one a second caller makes while a
\* get_event() is blocked in its line read, raises nothing and leaves the
\* manager Idle, and the second caller's stop() issues the kill.
C13_StopAnyPoint ==
  /\ last.op = "stop" => (last.outcome = "returned" /\ handler.gen_events = None)
  /\ other.op = "stop" => (other.outcome = "returned" /\ other.kill = 1)
  /\ (other.op = "stop" /\ pc = "readline" /\ last.outcome = "pending") =>
       procs[last.proc].status # "running"

\* C14: when Popen fails during a get_event() on an Idle manager, the error
\* reaches the caller after that single attempt, the manager stays Idle
\* and owns no process, and the next get_event() attempts a spawn again.
C14_SpawnFailure ==
  [][ /\ (get_event_call(FALSE) /\ needs_init(handler)) =>
           /\ last'.outcome = "raised"
           /\ last'.exc = "OSError"
           /\ last'.popen = 1
           /\ npopen' = npopen + 1
           /\ handler'.gen_events = None
           /\ UNCHANGED <<handler, procs, stdout, pc>>
      /\ ( /\ get_event_call(TRUE) \/ get_event_call(FALSE)
           /\ last.op = "get_event"
           /\ last.exc = "OSError" ) =>
           /\ last'.popen = 1
           /\ npopen' = npopen + 1 ]_vars

\* A spawn failed after an earlier process had been stopped, and the
\* manager is Idle.
C14_Witness ==
  /\ last.op = "get_event"
  /\ last.outcome = "raised"
  /\ last.exc = "OSError"
  /\ last.popen = 1
  /\ Len(procs) = 1
  /\ npopen = 2
  /\ handler.gen_events = None

\* C15: every Event a get_event() returns stands for a line the background
\* process had written and readline() had taken from the pipe: the manager
\* never hands out more events than lines read.
C15_BlockingPull ==
  /\ stdout.nread <= Len(stdout.emitted)
  /\ Len(stdout.delivered) <= stdout.nread

\* C15, second half: a get_event() blocked in its read comes back to the
\* caller once the process has written a line or ended.
C15_EventuallyReturns == (pc = "readline") ~> (pc = "idle")

\* The manager at rest and Active after a get_event() that returned.
AtRest ==
  /\ pc = "idle"
  /\ handler.gen_events # None
  /\ last.op = "get_event"
  /\ last.outcome = "returned"

\* C16: at rest after a get_event() that returned normally, the generator
\* is suspended at `continue_listening = yield`, never at `yield Event(line)`;
\* so the True of the next get_event() takes it to readline() without a new
\* process, and the False of a stop() takes it to proc.kill().
C16_HandShake ==
  [][ /\ AtRest' => procs'[handler'.gen_events].gen = "yield_instruction"
      /\ (AtRest /\ \E ok \in BOOLEAN : get_event_call(ok)) =>
           /\ pc' = "readline"
           /\ last'.outcome = "pending"
           /\ last'.popen = 0
           /\ procs'[handler.gen_events].gen = "readline"
      /\ (AtRest /\ stop(TRUE)) =>
           /\ last'.kill = 1
           /\ last'.outcome = "returned"
           /\ procs'[handler.gen_events].status # "running"
           /\ procs'[handler.gen_events].gen = "done" ]_vars

\* A second get_event() went through to readline() on the same process.
C16_Witness ==
  /\ pc = "readline"
  /\ last.op = "get_event"
  /\ last.popen = 0
  /\ Len(stdout.delivered) >= 1
  /\ procs[handler.gen_events].gen = "readline"

\* C17: whenever stop() has returned and left the manager Idle, none of the
\* background processes the manager spawned is still running, also when an
\* earlier get_event() raised inside the generator during the read.
C17_NoLeak ==
  (last.op = "stop" /\ last.outcome = "returned" /\ handler.gen_events = None) =>
    Live = {}

\* The manager at rest with a generator that an exception finished.
Broken ==
  /\ pc = "idle"
  /\ handler.gen_events # None
  /\ procs[handler.gen_events].gen = "done"

\* C18: a get_event() that raises during the line read leaves _gen_events
\* set, with a finished generator; from then on every get_event() raises
\* StopIteration without starting a process or reading a line, until a
\* stop(), which leaves the manager Idle; the get_event() after that stop()
\* starts a new process.
C18_FailedPullSticks ==
  [][ /\ ((get_event_return \/ interrupt) /\ last'.outcome = "raised") =>
           /\ UNCHANGED handler
           /\ Broken'
      /\ (Broken /\ \E ok \in BOOLEAN : get_event_call(ok)) =>
           /\ last'.outcome = "raised"
           /\ last'.exc = "StopIteration"
           /\ last'.popen = 0
           /\ Broken'
           /\ UNCHANGED <<handler, procs, stdout, npopen>>
      /\ (Broken /\ stop(TRUE)) =>
           /\ last'.outcome = "returned"
           /\ handler'.gen_events = None
      /\ (last.op = "stop" /\ get_event_call(TRUE)) =>
           /\ last'.popen = 1
           /\ Len(procs') = Len(procs) + 1
           /\ handler'.gen_events = Len(procs')
           /\ pc' = "readline" ]_vars

\* A get_event() after a failed pull raised StopIteration, and the
\* first process is still the only one started.
C18_Witness ==
  /\ last.op = "get_event"
  /\ last.outcome = "raised"
  /\ last.exc = "StopIteration"
  /\ last.popen = 0
  /\ npopen = 1
  /\ Broken

====
